---- MODULE Spec2Model ----
(***************************************************************************)
(* A model of tt-complains: the synthetic road network                     *)
(* (graph_city/synthetic_graph.py) and the driver-life simulator           *)
(* (driver/driver_life.py).                                                *)
(*                                                                         *)
(* Spec       one SyntheticGraph: construction, loop iteration by loop     *)
(*            iteration, then its queries.                                 *)
(* SpecRepro  two constructions with the same arguments, side by side.     *)
(* SpecDriver one DriverLife: the trip loop of _simulate_trips.            *)
(***************************************************************************)
EXTENDS Integers, Sequences, FiniteSets, TLC

VARIABLES
    pc,          \* where the graph object is: "new", "spanning", "random", "ready", "failed"
    num_nodes,   \* self.num_nodes (0 until __init__ assigns it)
    graph,       \* self.graph: [directed edges -> [distance, price]]
    span_next,   \* _create_spanning_tree: the next element of node_list
    span_len,    \* _create_spanning_tree: len(node_list)
    rand_left,   \* _add_random_edges: iterations still to run
    graph_edges, \* set(self._simple_edges + self._random_edges), the two lists as one set
    call,        \* the last call made on the object: [op, a, b, weight]
    route,       \* what that call returned: a RouteInfo record, or None
    raised,      \* the exception that call raised, or "none"
    calls,       \* how many calls the built object has served
    graph2,      \* SpecRepro: the graph of the second construction
    rng,         \* SpecRepro: the state of the random module while the first graph is built
    rng2,        \* SpecRepro: the same while the second graph is built
    dpc,              \* where the DriverLife is: "new", "trips", "done", "failed"
    complain_threshold, quit_threshold, stress_decay,   \* self.<the same>
    number_trips,     \* self.number_trips
    assigned_routes,  \* self.assigned_routes
    stress_score,     \* self.stress_score
    has_quit,         \* self.has_quit
    trouble_score,    \* _simulate_trips: its local trouble_score
    trips,            \* _simulate_trips: its local list trips
    trip_count,       \* _simulate_trips: iterations of the loop begun so far
    gpt_calls,        \* calls of gpt_chat.chat_complete_with_model so far
    driver_raised,    \* the exception that ended DriverLife.__init__, or "none"
    target_trips,     \* _simulate_trips: the length of range(self.number_trips)
    route_id,         \* _simulate_trips: its local route_id
    sampled_trips,    \* __init__: the draw np.random.normal(mean_trips, sd_trips), as an integer
    current_time,     \* _simulate_trips: its local current_time, in hours after start_date
    updates,          \* SpecStress: the calls of _update_stress_score made so far
    driver2,          \* SpecShared: the DriverLife of the second run, as a record
    spc,              \* session_scope: "idle", or "body" while the with-body runs
    db,               \* the rows the database holds (committed)
    pending,          \* the rows added to the open session and not committed
    seen,             \* what the last session.query(...).all() of a body returned
    last_scope,       \* the last scope left: what its body raised, the calls made
                      \* on its session, and what the caller got
    scopes            \* how many scopes have been entered

graphVars == <<pc, num_nodes, graph, span_next, span_len, rand_left, graph_edges,
               call, route, raised, calls>>
reproVars == <<graph2, rng, rng2>>
driverVars == <<dpc, complain_threshold, quit_threshold, stress_decay, number_trips,
                assigned_routes, stress_score, has_quit, trouble_score, trips,
                trip_count, gpt_calls, driver_raised, target_trips, route_id,
                   sampled_trips, current_time>>
sessionVars == <<spc, db, pending, seen, last_scope, scopes>>
extraVars == <<updates, driver2, sessionVars>>
vars == <<graphVars, reproVars, driverVars, extraVars>>

(***************************************************************************)
(* Bounds of the model.                                                    *)
(***************************************************************************)
\* The largest node count the model constructs.
MaxNodes == 4
\* The calls the model makes on one built graph.
MaxCalls == 1

(***************************************************************************)
(* Program constants.                                                      *)
(***************************************************************************)
MinNodes == 2
DensityParam == 2
MinDistance == 300
MaxDistance == 1000
MaxDistanceJitter == 10
MaxPriceJitter == 1
\* models/constants.py is not part of the sources at hand: the spec only says
\* "price = distance x fixed per-unit rate", a positive rate.
KM_PRICE == 2

\* Python's None where a RouteInfo is expected, and where a seed is.
None == [start |-> -1, end |-> -1, path |-> <<>>, total_distance |-> 0, total_price |-> 0]
NoSeed == -1
NoCall == [op |-> "none", a |-> -1, b |-> -1, weight |-> "none"]
EmptyGraph == [e \in {} |-> 0]
\* No query has been made yet.
NoQuery == {-1}
\* No scope has been left yet.
NoScope == [body |-> "none", calls |-> <<>>, raised |-> "none", added |-> {}]
\* No DriverLife has been constructed.
NoDriver ==
    [dpc |-> "new", number_trips |-> 0, target_trips |-> 0, assigned_routes |-> {},
     stress_score |-> 0, has_quit |-> FALSE, trouble_score |-> 0, trips |-> <<>>,
     trip_count |-> 0, gpt_calls |-> 0, driver_raised |-> "none", route_id |-> 0,
     sampled_trips |-> 0, current_time |-> 0]

\* The values the model draws for random.randint(300, 1000): both ends.
DistanceChoices == {MinDistance, MaxDistance}
\* The values it draws for random.randint(-10, 10) and random.randint(-1, 1):
\* a reverse edge that is longer and cheaper than its forward edge, so that
\* the two metrics can disagree on which path is the shortest.
DistanceJitterChoices == {MaxDistanceJitter}
PriceJitterChoices == {-MaxPriceJitter}

(***************************************************************************)
(* networkx.DiGraph, as far as the program uses it.                        *)
(***************************************************************************)
Edges(g) == DOMAIN g
Nodes(g) == {e[1] : e \in DOMAIN g} \cup {e[2] : e \in DOMAIN g}
HasEdge(g, u, v) == <<u, v>> \in DOMAIN g

\* G.add_edge(u, v, distance=d, price=p): adds the edge, or updates its data.
AddEdge(g, u, v, d, p) ==
    [e \in DOMAIN g \cup {<<u, v>>} |->
        IF e = <<u, v>> THEN [distance |-> d, price |-> p] ELSE g[e]]

\* Mutant of AddBidirectionalEdge: the reverse edge is forgotten.
AddBidirectionalEdge_ForwardOnly(g, u, v, distance, dj, pj) ==
    AddEdge(g, u, v, distance, distance * KM_PRICE)

\* _add_bidirectional_edge with its three draws given.
AddBidirectionalEdge(g, u, v, distance, dj, pj) ==
    LET price == distance * KM_PRICE
        forward == AddEdge(g, u, v, distance, price)
    IN  AddEdge(forward, v, u, distance + dj, price + pj)

\* range(n) as a sequence.
Range(n) == [i \in 1..n |-> i - 1]

\* Mutant of SpanningEdge: node i is joined to node i+2.
SpanningEdge_SkipOne(i, n) == <<i, (i + 2) % n>>

\* The edge the backbone adds for node i.
SpanningEdge(i, n) == <<i, (i + 1) % n>>

(***************************************************************************)
(* networkx.shortest_path(G, source, target, weight) and                   *)
(* networkx.descendants(G, source), as the program calls them.             *)
(***************************************************************************)
Unreached == -1

\* Dijkstra's loop: settle the closest unsettled node, relax its out-edges.
RECURSIVE DijkstraLoop(_, _, _, _)
DijkstraLoop(g, w, dist, settled) ==
    LET frontier == {n \in DOMAIN dist : n \notin settled /\ dist[n] # Unreached}
    IN  IF frontier = {} THEN dist
        ELSE LET u == CHOOSE n \in frontier : \A m \in frontier : dist[n] <= dist[m]
                 \* (@@ makes TLC tabulate the new distances once)
                 relaxed == [v \in DOMAIN dist |->
                     IF /\ HasEdge(g, u, v)
                        /\ v \notin settled
                        /\ (dist[v] = Unreached \/ dist[u] + g[<<u, v>>][w] < dist[v])
                     THEN dist[u] + g[<<u, v>>][w]
                     ELSE dist[v]] @@ <<>>
             IN  DijkstraLoop(g, w, relaxed, settled \cup {u})

\* The distance Dijkstra's algorithm finds from source to every node.
Dijkstra(g, source, w) ==
    DijkstraLoop(g, w, [n \in Nodes(g) |-> IF n = source THEN 0 ELSE Unreached], {})

\* The paths source..v over edges on which the found distances are tight:
\* the paths a Dijkstra search may hand back, whatever its tie-breaking.
RECURSIVE TightPaths(_, _, _, _, _)
TightPaths(g, w, dist, source, v) ==
    IF v = source THEN {<<source>>}
    ELSE UNION {{Append(p, v) : p \in TightPaths(g, w, dist, source, u)} :
                u \in {x \in DOMAIN dist :
                        /\ HasEdge(g, x, v)
                        /\ dist[x] # Unreached
                        /\ dist[x] + g[<<x, v>>][w] = dist[v]}}

\* The results nx.shortest_path may return: the empty set is NetworkXNoPath.
ShortestPaths(g, source, target, w) ==
    LET dist == Dijkstra(g, source, w)
    IN  IF dist[target] = Unreached THEN {}
        ELSE TightPaths(g, w, dist, source, target)

\* nx.descendants(G, source): the nodes reachable from source, source excluded.
Descendants(g, source) ==
    LET dist == Dijkstra(g, source, "distance")
    IN  {n \in Nodes(g) : dist[n] # Unreached} \ {source}

(***************************************************************************)
(* SyntheticGraph.get_path_info                                            *)
(***************************************************************************)
\* sum(self.graph[u][v][attr] for u, v in zip(path, path[1:]))
RECURSIVE PathSum(_, _, _)
PathSum(g, path, attr) ==
    IF Len(path) < 2 THEN 0
    ELSE g[<<path[1], path[2]>>][attr] + PathSum(g, Tail(path), attr)

\* Mutant of RouteInfo: the price is summed over the distance attribute.
RouteInfo_PriceFromDistance(g, start, end, path) ==
    [start |-> start, end |-> end, path |-> path,
     total_distance |-> PathSum(g, path, "distance"),
     total_price |-> PathSum(g, path, "distance")]

RouteInfo(g, start, end, path) ==
    [start |-> start, end |-> end, path |-> path,
     total_distance |-> PathSum(g, path, "distance"),
     total_price |-> PathSum(g, path, "price")]

\* Line 156: the weight names get_path_info accepts.
WeightOk(weight) == weight \in {"distance", "price"}

\* Mutant of NodesOk: one existing node is enough.
NodesOk_Either(g, start, end) == start \in Nodes(g) \/ end \in Nodes(g)

\* Line 159: both nodes exist in the graph.
NodesOk(g, start, end) == start \in Nodes(g) /\ end \in Nodes(g)

\* Mutant of ShortestPathCall: the weight is not handed on, and the search
\* counts edges.
ShortestPathCall_Unweighted(g, start, end, weight) ==
    ShortestPaths([e \in DOMAIN g |-> [distance |-> 1, price |-> 1]], start, end, "distance")

\* Line 163: nx.shortest_path(self.graph, source=start, target=end, weight=weight)
ShortestPathCall(g, start, end, weight) == ShortestPaths(g, start, end, weight)

\* What get_path_info(start, end, weight) does: <<exception, return value>>
\* for each result nx.shortest_path may give.
PathInfoOutcomes(g, start, end, weight) ==
    IF ~WeightOk(weight) THEN {<<"ValueError", None>>}
    ELSE IF ~NodesOk(g, start, end) THEN {<<"ValueError", None>>}
    ELSE IF start \notin Nodes(g) \/ end \notin Nodes(g)
         THEN {<<"NodeNotFound", None>>}       \* nx.shortest_path's own check
    ELSE LET paths == ShortestPathCall(g, start, end, weight)
         IN  IF paths = {} THEN {<<"none", None>>}      \* except nx.NetworkXNoPath
             ELSE {<<"none", RouteInfo(g, start, end, p)>> : p \in paths}

\* Mutant of ReachableNodes: the end is chosen among all nodes.
ReachableNodes_AllNodes(g, start) == Nodes(g)

\* The end nodes get_random_route chooses among for a start node.
ReachableNodes(g, start) == Descendants(g, start)

(***************************************************************************)
(* Construction                                                            *)
(***************************************************************************)
\* Line 27: the node count __init__ rejects.
TooFewNodes(n) == n < MinNodes

\* Mutant of RangeRejected: > for >=.
RangeRejected_OffByOne(len, n) == len = 0 \/ len - 1 > n

\* Lines 73-74: a node range of the given length that holds an index >= num_nodes.
\* max() of an empty range raises ValueError as well.
RangeRejected(len, n) == len = 0 \/ len - 1 >= n

\* How many random edges _add_random_edges adds.
RandomEdgeCount(n) == n * DensityParam

\* Where the object is once the backbone loop is over.
AfterSpanning(left) == IF left > 0 THEN "random" ELSE "ready"

Init ==
    /\ pc = "new"
    /\ num_nodes = 0
    /\ graph = EmptyGraph
    /\ span_next = 0
    /\ span_len = 0
    /\ rand_left = 0
    /\ graph_edges = {}
    /\ call = NoCall
    /\ route = None
    /\ raised = "none"
    /\ calls = 0
    /\ graph2 = EmptyGraph
    /\ rng = [seed |-> NoSeed, pos |-> 0]
    /\ rng2 = [seed |-> NoSeed, pos |-> 0]
    /\ dpc = "new"
    /\ complain_threshold = 0
    /\ quit_threshold = 0
    /\ stress_decay = 0
    /\ number_trips = 0
    /\ assigned_routes = {}
    /\ stress_score = 0
    /\ has_quit = FALSE
    /\ trouble_score = 0
    /\ trips = <<>>
    /\ trip_count = 0
    /\ gpt_calls = 0
    /\ driver_raised = "none"
    /\ target_trips = 0
    /\ route_id = 0
    /\ sampled_trips = 0
    /\ current_time = 0
    /\ updates = <<>>
    /\ driver2 = NoDriver
    /\ spc = "idle"
    /\ db = {}
    /\ pending = {}
    /\ seen = NoQuery
    /\ last_scope = NoScope
    /\ scopes = 0

\* SyntheticGraph(num_nodes=n): __init__ up to the first backbone iteration.
Initialize(n) ==
    /\ pc = "new"
    /\ call' = [op |-> "__init__", a |-> n, b |-> -1, weight |-> "none"]
    /\ route' = None
    /\ IF TooFewNodes(n)
       THEN /\ pc' = "failed"
            /\ raised' = "ValueError"
            /\ UNCHANGED <<num_nodes, graph, span_next, span_len, rand_left,
                           graph_edges>>
       ELSE /\ pc' = "spanning"
            /\ raised' = "none"
            /\ num_nodes' = n
            /\ graph' = EmptyGraph
            /\ span_next' = 0
            /\ span_len' = n
            /\ rand_left' = RandomEdgeCount(n)
            /\ graph_edges' = {}
    /\ calls' = 0

\* The construction of one graph, whatever the state of the random module:
\* every outcome of its draws is tried.
Construct(n) ==
    /\ Initialize(n)
    /\ UNCHANGED <<reproVars, driverVars, extraVars>>

\* One iteration of the loop of _create_spanning_tree (lines 79-81).
SpanningIteration(distance, dj, pj) ==
    /\ pc = "spanning"
    /\ span_next < span_len
    /\ LET e == SpanningEdge(Range(span_len)[span_next + 1], num_nodes)
       IN  /\ graph_edges' = graph_edges \cup {<<e[1], e[2]>>, <<e[2], e[1]>>}
           /\ graph' = AddBidirectionalEdge(graph, e[1], e[2], distance, dj, pj)
    /\ span_next' = span_next + 1
    /\ pc' = IF span_next + 1 = span_len THEN AfterSpanning(rand_left) ELSE "spanning"
    /\ UNCHANGED <<num_nodes, span_len, rand_left, call, route, raised, calls>>

SpanningStep(distance, dj, pj) ==
    /\ SpanningIteration(distance, dj, pj)
    /\ UNCHANGED <<reproVars, driverVars, extraVars>>

\* One iteration of the loop of _add_random_edges (lines 91-94):
\* u, v = random.sample(list(nodes), 2) are two distinct nodes.
RandomEdgeIteration(u, v, distance, dj, pj) ==
    /\ pc = "random"
    /\ rand_left > 0
    /\ u # v
    /\ graph_edges' = graph_edges \cup {<<u, v>>, <<v, u>>}
    /\ graph' = AddBidirectionalEdge(graph, u, v, distance, dj, pj)
    /\ rand_left' = rand_left - 1
    /\ pc' = IF rand_left = 1 THEN "ready" ELSE "random"
    /\ UNCHANGED <<num_nodes, span_next, span_len, call, route, raised, calls>>

RandomEdgeStep(u, v, distance, dj, pj) ==
    /\ RandomEdgeIteration(u, v, distance, dj, pj)
    /\ UNCHANGED <<reproVars, driverVars, extraVars>>

\* The object is built and the model may still call it.
Callable == pc = "ready" /\ calls < MaxCalls

\* A caller's graph._create_spanning_tree(range(len)) on the built object.
CreateSpanningTree(len) ==
    /\ Callable
    /\ calls' = calls + 1
    /\ call' = [op |-> "_create_spanning_tree", a |-> len, b |-> -1, weight |-> "none"]
    /\ route' = None
    /\ IF RangeRejected(len, num_nodes)
       THEN /\ raised' = "ValueError"
            /\ UNCHANGED <<pc, span_next, span_len>>
       ELSE /\ raised' = "none"
            /\ pc' = "spanning"
            /\ span_next' = 0
            /\ span_len' = len
    /\ UNCHANGED <<num_nodes, graph, rand_left, graph_edges>>
    /\ UNCHANGED <<reproVars, driverVars, extraVars>>

\* graph.get_path_info(start, end, weight)
GetPathInfo(start, end, weight) ==
    /\ Callable
    /\ calls' = calls + 1
    /\ call' = [op |-> "get_path_info", a |-> start, b |-> end, weight |-> weight]
    /\ \E out \in PathInfoOutcomes(graph, start, end, weight) :
        /\ raised' = out[1]
        /\ route' = out[2]
    /\ UNCHANGED <<pc, num_nodes, graph, span_next, span_len, rand_left,
                   graph_edges>>
    /\ UNCHANGED <<reproVars, driverVars, extraVars>>

\* graph.get_random_route(): start = random.choice(nodes), end =
\* random.choice(reachable_nodes), then get_path_info(start, end).
GetRandomRoute(start) ==
    /\ Callable
    /\ calls' = calls + 1
    /\ start \in Nodes(graph)
    /\ LET reachable_nodes == ReachableNodes(graph, start)
       IN  IF reachable_nodes = {}
           THEN /\ call' = [op |-> "get_random_route", a |-> start, b |-> -1,
                            weight |-> "distance"]
                /\ route' = None
                /\ raised' = "none"
           ELSE \E end \in reachable_nodes :
                   /\ call' = [op |-> "get_random_route", a |-> start, b |-> end,
                               weight |-> "distance"]
                   /\ \E out \in PathInfoOutcomes(graph, start, end, "distance") :
                       /\ raised' = out[1]
                       /\ route' = out[2]
    /\ UNCHANGED <<pc, num_nodes, graph, span_next, span_len, rand_left,
                   graph_edges>>
    /\ UNCHANGED <<reproVars, driverVars, extraVars>>

\* The arguments the model tries.
NodeCountArgs == 0..MaxNodes
NodeArgs == 0..num_nodes
WeightArgs == {"distance", "price", "time"}
RangeLenArgs == 0..(MaxNodes + 1)

Next ==
    \/ \E n \in NodeCountArgs : Construct(n)
    \/ \E d \in DistanceChoices, dj \in DistanceJitterChoices, pj \in PriceJitterChoices :
        SpanningStep(d, dj, pj)
    \/ \E u, v \in 0..(num_nodes - 1) :
        \E d \in DistanceChoices, dj \in DistanceJitterChoices, pj \in PriceJitterChoices :
            RandomEdgeStep(u, v, d, dj, pj)
    \/ \E len \in RangeLenArgs : CreateSpanningTree(len)
    \/ \E s, t \in NodeArgs, w \in WeightArgs : GetPathInfo(s, t, w)
    \/ \E s \in NodeArgs : GetRandomRoute(s)

Spec == Init /\ [][Next]_vars

(***************************************************************************)
(* What the claims speak of, defined apart from the operations above.      *)
(***************************************************************************)
\* The nodes reachable from a set of nodes along directed edges.
RECURSIVE ReachClosure(_, _)
ReachClosure(g, set) ==
    LET next == set \cup {e[2] : e \in {x \in DOMAIN g : x[1] \in set}}
    IN  IF next = set THEN set ELSE ReachClosure(g, next)

StronglyConnected(g) == \A s \in Nodes(g) : ReachClosure(g, {s}) = Nodes(g)

\* The sum of an attribute over the edges path[i] -> path[i+1], from index i on.
RECURSIVE EdgeTotal(_, _, _, _)
EdgeTotal(g, path, attr, i) ==
    IF i >= Len(path) THEN 0
    ELSE g[<<path[i], path[i + 1]>>][attr] + EdgeTotal(g, path, attr, i + 1)

\* A path over existing edges.
IsPath(g, path) ==
    /\ Len(path) >= 1
    /\ \A i \in 1..(Len(path) - 1) : HasEdge(g, path[i], path[i + 1])

\* Every directed path without a repeated node from the end of `path` to target.
RECURSIVE SimplePathsFrom(_, _, _)
SimplePathsFrom(g, path, target) ==
    IF path[Len(path)] = target THEN {path}
    ELSE UNION {SimplePathsFrom(g, Append(path, v), target) :
                v \in {x \in Nodes(g) :
                        /\ HasEdge(g, path[Len(path)], x)
                        /\ \A i \in 1..Len(path) : path[i] # x}}

\* The backbone loop of the constructor has run to its end.
BackboneDone == pc \in {"random", "ready"} \/ calls > 0
\* The constructor has returned an object.
Built == pc = "ready" \/ calls > 0

\* C1: once the backbone is in place, and whatever the random densification
\* adds afterwards, the graph has the nodes 0..N-1 and every node is
\* reachable from every other node along directed edges.
C1_StronglyConnected ==
    BackboneDone =>
        /\ Nodes(graph) = 0..(num_nodes - 1)
        /\ StronglyConnected(graph)

\* C1 witness: a built 4-node graph in which the densification added the
\* pair 0-2, which the backbone does not hold.
C1_Witness ==
    /\ pc = "ready"
    /\ num_nodes = 4
    /\ HasEdge(graph, 0, 2)
    /\ ~HasEdge(graph, 1, 3)
    /\ StronglyConnected(graph)

\* C2: for every directed edge (u, v) of the graph the reverse edge (v, u) is
\* in the graph too, after every iteration of both construction loops.
C2_Bidirectional ==
    \A e \in Edges(graph) : HasEdge(graph, e[2], e[1])

\* C2 witness: a built 2-node graph, where the backbone alone adds the pair
\* 0-1 twice and the densification four times more; the edge 0 -> 1 last
\* written as a reverse edge.
C2_Witness ==
    /\ pc = "ready"
    /\ num_nodes = 2
    /\ Edges(graph) = {<<0, 1>>, <<1, 0>>}
    /\ graph[<<0, 1>>].distance = MaxDistance + MaxDistanceJitter

\* C3: the totals of every returned route are the sums of the distance and
\* of the price attributes of the edges between consecutive nodes of its
\* path, for get_path_info with either weight and for get_random_route.
C3_TotalsAreEdgeSums ==
    route # None =>
        /\ route.total_distance = EdgeTotal(graph, route.path, "distance", 1)
        /\ route.total_price = EdgeTotal(graph, route.path, "price", 1)

\* C3 witness: a route by price over two edges whose prices differ from
\* their distances.
C3_Witness ==
    /\ route # None
    /\ call.op = "get_path_info"
    /\ call.weight = "price"
    /\ Len(route.path) = 3
    /\ route.total_price = 2 * MinDistance * KM_PRICE - MaxPriceJitter

\* C4: for valid arguments the returned path begins at start, ends at end,
\* runs over existing edges, and no directed path from start to end has a
\* smaller sum of the chosen weight.
C4_ShortestPath ==
    (call.op = "get_path_info" /\ raised = "none" /\ route # None) =>
        /\ route.start = call.a
        /\ route.end = call.b
        /\ route.path[1] = call.a
        /\ route.path[Len(route.path)] = call.b
        /\ IsPath(graph, route.path)
        /\ \A p \in SimplePathsFrom(graph, <<call.a>>, call.b) :
              EdgeTotal(graph, p, call.weight, 1)
                  >= EdgeTotal(graph, route.path, call.weight, 1)

\* C4 witness: a shortest path by price that is not a shortest path by
\* distance, and takes more edges than the direct one.
C4_Witness ==
    /\ call.op = "get_path_info"
    /\ call.weight = "price"
    /\ route # None
    /\ Len(route.path) = 3
    /\ HasEdge(graph, call.a, call.b)
    /\ \E p \in SimplePathsFrom(graph, <<call.a>>, call.b) :
          EdgeTotal(graph, p, "distance", 1) < route.total_distance

\* C5: get_random_route on a built graph never returns None; its route joins
\* two distinct nodes of the graph and has positive total distance and price.
C5_RandomRoute ==
    call.op = "get_random_route" =>
        /\ raised = "none"
        /\ route # None
        /\ route.start # route.end
        /\ route.start \in Nodes(graph)
        /\ route.end \in Nodes(graph)
        /\ route.total_distance > 0
        /\ route.total_price > 0

\* C5 witness: a random route over more than one edge.
C5_Witness ==
    /\ call.op = "get_random_route"
    /\ route # None
    /\ Len(route.path) >= 3

\* C6: a construction with N < 2 raises ValueError and leaves no node and no
\* edge; _create_spanning_tree over a range holding an index >= N raises
\* ValueError and leaves the graph as it was.
C6_RejectsBeforeBuilding ==
    /\ []((call.op = "__init__" /\ call.a < 2) =>
            (pc = "failed" /\ raised = "ValueError" /\ graph = EmptyGraph))
    /\ [][(call'.op = "_create_spanning_tree" /\ calls' = calls + 1
              /\ call'.a - 1 >= num_nodes) =>
            (raised' = "ValueError" /\ graph' = graph /\ pc' = "ready")]_vars

\* C6 witness: range(N + 1) was rejected on a built graph.
C6_Witness ==
    /\ call.op = "_create_spanning_tree"
    /\ call.a = num_nodes + 1
    /\ raised = "ValueError"
    /\ Edges(graph) # {}

\* C7: get_path_info raises ValueError whenever the weight is not one of the
\* two names or start or end is not a node; it returns None without raising
\* only for valid arguments with no path between them; it never changes the
\* graph.
C7_PathInfoValidation ==
    /\ [](call.op = "get_path_info" =>
            /\ (\/ call.weight \notin {"distance", "price"}
                \/ call.a \notin Nodes(graph)
                \/ call.b \notin Nodes(graph)) => (raised = "ValueError" /\ route = None)
            /\ (raised = "none" /\ route = None) =>
                  /\ call.weight \in {"distance", "price"}
                  /\ call.a \in Nodes(graph)
                  /\ call.b \in Nodes(graph)
                  /\ call.b \notin ReachClosure(graph, {call.a}))
    /\ [][(call'.op = "get_path_info" /\ calls' = calls + 1) =>
            (graph' = graph /\ num_nodes' = num_nodes /\ pc' = pc)]_vars

\* C7 witness: a valid weight and start with an end that is no node.
C7_Witness ==
    /\ call.op = "get_path_info"
    /\ call.weight = "price"
    /\ call.a \in Nodes(graph)
    /\ call.b \notin Nodes(graph)
    /\ raised = "ValueError"

\* C8 (as the test states it): every edge carries a distance in 1..20 and a
\* price in 1..100.
C8_WeightsInTestRange ==
    \A e \in Edges(graph) :
        /\ 1 <= graph[e].distance /\ graph[e].distance <= 20
        /\ 1 <= graph[e].price /\ graph[e].price <= 100

(***************************************************************************)
(* Two constructions, SyntheticGraph(n, seed) twice, side by side: graph   *)
(* and graph2. The random module is deterministic: a draw is a function of *)
(* the generator's state, which is the last seed and the draws made since. *)
(***************************************************************************)
\* Mutant of SeedRandom: the seed is not applied.
SeedRandom_Ignored(state, random_seed) == state

\* Lines 36-37: if random_seed is not None: random.seed(random_seed)
SeedRandom(state, random_seed) ==
    IF random_seed # NoSeed THEN [seed |-> random_seed, pos |-> 0] ELSE state

\* The generator after k more draws.
Advance(state, k) == [state EXCEPT !.pos = @ + k]

\* The draws of one iteration of either loop, and of one whole construction.
SpanningDraws == 3
RandomEdgeDraws == 4
ConstructionDraws(n) == n * SpanningDraws + RandomEdgeCount(n) * RandomEdgeDraws

\* Both constructions start; the second finds the generator as the first
\* left it.
ReproConstruct(n, random_seed) ==
    /\ Initialize(n)
    /\ graph2' = EmptyGraph
    /\ rng' = SeedRandom(rng, random_seed)
    /\ rng2' = SeedRandom(Advance(SeedRandom(rng, random_seed), ConstructionDraws(n)),
                          random_seed)
    /\ UNCHANGED <<driverVars, extraVars>>

\* The same backbone iteration of both constructions: with the generator in
\* the same state the draws are the same.
ReproSpanningStep(d1, dj1, pj1, d2, dj2, pj2) ==
    /\ rng = rng2 => <<d1, dj1, pj1>> = <<d2, dj2, pj2>>
    /\ SpanningIteration(d1, dj1, pj1)
    /\ LET e == SpanningEdge(Range(span_len)[span_next + 1], num_nodes)
       IN  graph2' = AddBidirectionalEdge(graph2, e[1], e[2], d2, dj2, pj2)
    /\ rng' = Advance(rng, SpanningDraws)
    /\ rng2' = Advance(rng2, SpanningDraws)
    /\ UNCHANGED <<driverVars, extraVars>>

\* The same densification iteration of both constructions.
ReproRandomEdgeStep(u1, v1, d1, dj1, pj1, u2, v2, d2, dj2, pj2) ==
    /\ rng = rng2 => <<u1, v1, d1, dj1, pj1>> = <<u2, v2, d2, dj2, pj2>>
    /\ u2 # v2
    /\ RandomEdgeIteration(u1, v1, d1, dj1, pj1)
    /\ graph2' = AddBidirectionalEdge(graph2, u2, v2, d2, dj2, pj2)
    /\ rng' = Advance(rng, RandomEdgeDraws)
    /\ rng2' = Advance(rng2, RandomEdgeDraws)
    /\ UNCHANGED <<driverVars, extraVars>>

\* The seeds the model tries (those of the tests).
SeedArgs == {42}

\* The draws of the second construction, given those of the first: the same
\* when the generator is in the same state, any otherwise.
TwinDraws(draws, all) == IF rng = rng2 THEN {draws} ELSE all

ReproNext ==
    \/ \E n \in NodeCountArgs, seed \in SeedArgs : ReproConstruct(n, seed)
    \/ \E d1 \in DistanceChoices, dj1 \in DistanceJitterChoices, pj1 \in PriceJitterChoices :
        \E t \in TwinDraws(<<d1, dj1, pj1>>,
                   DistanceChoices \X DistanceJitterChoices \X PriceJitterChoices) :
            ReproSpanningStep(d1, dj1, pj1, t[1], t[2], t[3])
    \/ \E u1, v1 \in 0..(num_nodes - 1) :
        \E d1 \in DistanceChoices, dj1 \in DistanceJitterChoices, pj1 \in PriceJitterChoices :
            \E t \in TwinDraws(<<u1, v1, d1, dj1, pj1>>,
                       (0..(num_nodes - 1)) \X (0..(num_nodes - 1)) \X DistanceChoices
                           \X DistanceJitterChoices \X PriceJitterChoices) :
                ReproRandomEdgeStep(u1, v1, d1, dj1, pj1, t[1], t[2], t[3], t[4], t[5])

SpecRepro == Init /\ [][ReproNext]_vars

\* C9: two constructions with the same node count and the same seed give the
\* same edge set (and the same edge data), after every iteration.
C9_SameSeedSameGraph ==
    /\ Edges(graph2) = Edges(graph)
    /\ graph2 = graph

\* C9 witness: both 4-node constructions with seed 42 are over, and hold the
\* pair 0-2 that only the densification can add.
C9_Witness ==
    /\ pc = "ready"
    /\ rng.seed = 42
    /\ num_nodes = 4
    /\ HasEdge(graph, 0, 2)
    /\ HasEdge(graph2, 0, 2)
    /\ ~HasEdge(graph, 1, 3)

(***************************************************************************)
(* DriverLife (driver/driver_life.py). Real numbers are held as integers   *)
(* in units of 1/Scale; stress_decay is held in tenths.                    *)
(***************************************************************************)
\* The largest number of trips (self.number_trips) the model draws.
MaxTrips == 3
\* The arguments min_routes, max_routes and total_routes the model passes.
MinRoutesArg == 0
MaxRoutesArg == 2
TotalRoutesArg == 5

Scale == 10 ^ 7
Tenths(x) == x * (Scale \div 10)
Hundredths(x) == x * (Scale \div 100)

\* The tables the model hands to DriverLife. Route 1 runs over two edges,
\* on the first of which an assault can happen, route 2 over one edge with
\* assault_risk 0,
\* route 3 over an edge the connection table does not hold, route 4 has a
\* path of one node and no edge; route id 5 is not in the route table.
\* Completion times are in hours.
RouteData ==
    [id \in {1, 2, 3, 4} |->
        [intermediate_nodes |-> CASE id = 1 -> <<1, 2, 3>>
                                  [] id = 2 -> <<2, 3>>
                                  [] id = 3 -> <<3, 1>>
                                  [] OTHER -> <<2>>,
         end_node |-> CASE id = 1 -> 3 [] id = 2 -> 3 [] id = 3 -> 1 [] OTHER -> 2,
         min_completion_time |-> 20,
         max_completion_time |-> 40]]

ConnectionDf ==
    {[start_node |-> 1, end_node |-> 2, assault_risk |-> Hundredths(5)],
     [start_node |-> 2, end_node |-> 3, assault_risk |-> 0]}

NodeDf == {1, 2, 3}

\* get_connections: the consecutive pairs of the nodes of a path.
GetConnections(nodes) ==
    [i \in 1..(Len(nodes) - 1) |-> <<nodes[i], nodes[i + 1]>>]

\* connection_df[(start_node == start) & (end_node == end)]
ConnectionRows(start, end) ==
    {row \in ConnectionDf : row.start_node = start /\ row.end_node = end}

\* _simulate_assault: the values was_assaulted may take, or IndexError when
\* .iloc[0] finds no row. random.random() < assault_risk can be true only
\* for a positive risk, and can always be false.
SimulateAssault(path) ==
    LET conns == GetConnections(path)
        missing == \E i \in DOMAIN conns : ConnectionRows(conns[i][1], conns[i][2]) = {}
        risky == \E i \in DOMAIN conns :
                    \E row \in ConnectionRows(conns[i][1], conns[i][2]) : row.assault_risk > 0
    IN  IF missing THEN [raised |-> "IndexError", outcomes |-> {}]
        ELSE [raised |-> "none", outcomes |-> IF risky THEN {TRUE, FALSE} ELSE {FALSE}]

\* The parameters calculate_trouble_score declares (risk_score.py, 38-46) and
\* the keywords _simulate_trouble calls it with (driver_life.py, 165-173).
TroubleScoreParameters ==
    {"highway_class", "highway_condition", "highway_difficulty",
     "unloading_difficulty", "driver_experience", "distance", "base_risk"}
TroubleScoreKeywords ==
    {"highway_class", "highway_condition", "highway_difficulty",
     "unloading_difficulty", "driver_experience", "distance", "omit_unloading"}

\* _simulate_trouble: 1.0 for an assaulted trip; otherwise the loop over the
\* connections, whose first call of calculate_trouble_score raises TypeError
\* for the keyword the function does not declare.
SimulateTrouble(path, time_ok, assaulted) ==
    LET conns == GetConnections(path)
    IN  IF assaulted THEN [raised |-> "none", score |-> Scale]
        ELSE IF \E i \in DOMAIN conns :
                    \/ ConnectionRows(conns[i][1], conns[i][2]) = {}
                    \/ conns[i][2] \notin NodeDf
             THEN [raised |-> "IndexError", score |-> 0]
        ELSE IF conns # <<>> /\ ~(TroubleScoreKeywords \subseteq TroubleScoreParameters)
             THEN [raised |-> "TypeError", score |-> 0]
        ELSE [raised |-> "none", score |-> 0]

\* Mutant of BlendTrouble: the weight 0.2 of the earlier trouble left out.
BlendTrouble_UnweightedHistory(previous, raw) == (previous * 5) \div 10 + (8 * raw) \div 10

\* Mutant of BlendTrouble: decay_factor left out of the blend.
BlendTrouble_NoDecayFactor(previous, raw) == (2 * previous) \div 10 + (8 * raw) \div 10

\* Line 239: 0.2*trouble_score*decay_factor + 0.8*raw, decay_factor = 0.5.
BlendTrouble(previous, raw) == (2 * previous * 5) \div 100 + (8 * raw) \div 10

\* Mutant of CalculateStressImpact: the cap above 0.7 left out.
CalculateStressImpact_NoCap(trouble) == IF trouble < Hundredths(1) THEN 0 ELSE trouble

\* Mutant of CalculateStressImpact: the branch for trouble below 0.01 left out.
CalculateStressImpact_NoFloor(trouble) ==
    IF trouble <= Tenths(7) THEN trouble ELSE (Tenths(7) * 12) \div 10

\* _calculate_stress_impact
CalculateStressImpact(trouble) ==
    IF trouble < Hundredths(1) THEN 0
    ELSE IF trouble <= Tenths(7) THEN trouble
    ELSE (Tenths(7) * 12) \div 10

\* Mutant of DecayedStress: the decay of line 112 left out.
DecayedStress_NoDecay(stress, trouble, decay) == stress + CalculateStressImpact(trouble)

\* Lines 112-116: the stress score after the decay and the new impact.
DecayedStress(stress, trouble, decay) ==
    (stress * (10 - decay)) \div 10 + CalculateStressImpact(trouble)

\* Mutant of HasComplain: the threshold itself does not count.
HasComplain_Strict(stress, threshold) == stress > threshold

\* Line 119: has_complain
HasComplain(stress, threshold) == stress >= threshold

\* Line 120: has_quit
HasQuit(stress, threshold) == stress >= threshold

\* Mutant of Trip: the two flags recorded in each other's field.
Trip_FlagsSwapped(id, start, completion, on_time, assaulted, trouble, stress, has_complain, quit) ==
    [route_id |-> id, start_datetime |-> start, completion_datetime |-> completion,
     on_time |-> on_time, min_completion_time |-> RouteData[id].min_completion_time,
     complain |-> "", assaulted |-> assaulted, trouble_score |-> trouble,
     stress_score |-> stress, has_complain |-> quit, driver_quit |-> has_complain]

\* Lines 250-262: the Trip of this iteration.
Trip(id, start, completion, on_time, assaulted, trouble, stress, has_complain, quit) ==
    [route_id |-> id, start_datetime |-> start, completion_datetime |-> completion,
     on_time |-> on_time, min_completion_time |-> RouteData[id].min_completion_time,
     complain |-> "", assaulted |-> assaulted, trouble_score |-> trouble,
     stress_score |-> stress, has_complain |-> has_complain, driver_quit |-> quit]

\* Mutant of RouteChoices: the routes drawn with replacement, so that the
\* set may hold fewer than num_routes members.
RouteChoices_WithReplacement(min_routes, max_routes, total_routes) ==
    {a \in SUBSET (0..(total_routes - 1)) :
        /\ Cardinality(a) <= max_routes
        /\ min_routes > 0 => Cardinality(a) >= 1}

\* Lines 66-69: the sets np.random.choice(total_routes, size=num_routes,
\* replace=False) can give for num_routes in min_routes..max_routes.
RouteChoices(min_routes, max_routes, total_routes) ==
    {a \in SUBSET (0..(total_routes - 1)) :
        min_routes <= Cardinality(a) /\ Cardinality(a) <= max_routes}

RouteAssignments == RouteChoices(MinRoutesArg, MaxRoutesArg, TotalRoutesArg)

ComplainThresholdArgs == {Tenths(7), Hundredths(84), Tenths(10)}
QuitThresholdArgs == {Tenths(8), Tenths(16), Tenths(30)}
StressDecayArgs == {3, 5}

\* Mutant of TextCalls: the text generator called for every trip.
TextCalls_Always(has_complain, n) == n + 1

\* Lines 264-270: the calls of the text generator made once this trip's
\* flag is known.
TextCalls(has_complain, n) == IF has_complain THEN n + 1 ELSE n

\* Mutant of LoopEnds: the break of lines 278-279 left out.
LoopEnds_NoBreak(quit, count, target) == count = target

\* Mutant of LoopEnds: the range one iteration short.
LoopEnds_Early(quit, count, target) == quit \/ count >= target - 1

\* Lines 217 and 278-279: the loop ends after a quitting trip or when the
\* range is used up.
LoopEnds(quit, count, target) == quit \/ count = target

\* The DriverLife under construction, as one value.
DriverRecord ==
    [dpc |-> dpc, number_trips |-> number_trips, target_trips |-> target_trips,
     assigned_routes |-> assigned_routes, stress_score |-> stress_score,
     has_quit |-> has_quit, trouble_score |-> trouble_score, trips |-> trips,
     trip_count |-> trip_count, gpt_calls |-> gpt_calls,
     driver_raised |-> driver_raised, route_id |-> route_id,
     sampled_trips |-> sampled_trips, current_time |-> current_time]

\* The fields and locals of the DriverLife become those of d.
SetDriver(d) ==
    /\ dpc' = d.dpc
    /\ number_trips' = d.number_trips
    /\ target_trips' = d.target_trips
    /\ assigned_routes' = d.assigned_routes
    /\ stress_score' = d.stress_score
    /\ has_quit' = d.has_quit
    /\ trouble_score' = d.trouble_score
    /\ trips' = d.trips
    /\ trip_count' = d.trip_count
    /\ gpt_calls' = d.gpt_calls
    /\ driver_raised' = d.driver_raised
    /\ route_id' = d.route_id
    /\ sampled_trips' = d.sampled_trips
    /\ current_time' = d.current_time

\* Line 63: int(max(1.0, sample)).
ClampTrips(sample) == IF sample < 1 THEN 1 ELSE sample

\* DriverLife.__init__ up to the call of _simulate_trips (lines 51-69) and
\* the first lines of _simulate_trips (212-215); n is the draw of line 63,
\* routes that of lines 66-69, gap the hours drawn at line 215.
StartDriver(n, routes, gap) ==
    [dpc |-> "trips", number_trips |-> ClampTrips(n), target_trips |-> ClampTrips(n),
     assigned_routes |-> routes, stress_score |-> 0, has_quit |-> FALSE,
     trouble_score |-> 0, trips |-> <<>>, trip_count |-> 0, gpt_calls |-> 0,
     driver_raised |-> "none", route_id |-> 0, sampled_trips |-> n,
     current_time |-> gap]

NewDriver(complain, quit, decay, n, routes, gap) ==
    /\ dpc = "new"
    /\ complain_threshold' = complain
    /\ quit_threshold' = quit
    /\ stress_decay' = decay
    /\ SetDriver(StartDriver(n, routes, gap))
    /\ UNCHANGED <<graphVars, reproVars, extraVars>>

\* Mutant of Abort: the exception caught and the trip skipped.
Abort_Skipped(d, exception) == d

\* An exception leaves _simulate_trips and __init__: no DriverLife is made.
Abort(d, exception) == [d EXCEPT !.dpc = "failed", !.driver_raised = exception]

\* Whether the loop of _simulate_trips can begin an iteration that draws
\* route r and has the assault rolls come out as assault. With no assigned
\* route the iteration begins and np.random.choice raises.
TripEnabled(d, r, assault) ==
    /\ d.dpc = "trips"
    /\ d.trip_count < d.target_trips
    /\ r \in d.assigned_routes \/ d.assigned_routes = {}
    /\ (d.assigned_routes # {} /\ (r + 1) \in DOMAIN RouteData) =>
          LET rolls == SimulateAssault(RouteData[r + 1].intermediate_nodes)
          IN  rolls.raised = "none" => assault \in rolls.outcomes

\* Lines 230 and 235-236: the completion time, in hours after start_date;
\* reduction is the draw of line 199 in hundredths.
CompletionTime(start, hours, assault, reduction) ==
    IF assault THEN start + hours - (hours * reduction) \div 100 ELSE start + hours

\* One iteration of the loop of _simulate_trips (lines 217-283), and, when it
\* is the last one, the return and _calculate_statistics (lines 285-290).
\* r is the route drawn, assault the outcome of the assault rolls, text_ok
\* whether the text generator answers before its retries are used up, and
\* times the other draws: hours for completion_hours (line 228), reduction
\* for completion_time_reduction (line 199), gap for inter_trip_hours (282).
TripStep(d, r, times, assault, text_ok) ==
    LET rid == r + 1
        counted == [d EXCEPT !.trip_count = @ + 1]
        begun == [counted EXCEPT !.route_id = rid]
    IN  IF d.assigned_routes = {} THEN Abort(counted, "ValueError")
        ELSE IF rid \notin DOMAIN RouteData THEN Abort(begun, "KeyError")
        ELSE
        LET path == RouteData[rid].intermediate_nodes
            rolls == SimulateAssault(path)
        IN  IF rolls.raised # "none" THEN Abort(begun, rolls.raised)
            ELSE
            LET completion == CompletionTime(d.current_time, times.hours, assault,
                                             times.reduction)
                on_time == (times.hours <= RouteData[rid].max_completion_time) /\ ~assault
                raw == SimulateTrouble(path, on_time, assault)
                trouble == BlendTrouble(d.trouble_score, raw.score)
                stress == DecayedStress(d.stress_score, trouble, stress_decay)
                has_complain == HasComplain(stress, complain_threshold)
                quit == HasQuit(stress, quit_threshold)
                trip == Trip(rid, d.current_time, completion, on_time, assault, trouble,
                             stress, has_complain, quit)
                updated == [begun EXCEPT !.trouble_score = trouble,
                                         !.stress_score = stress,
                                         !.has_quit = @ \/ quit,
                                         !.gpt_calls = TextCalls(has_complain, @)]
                made == [trip EXCEPT !.complain = IF has_complain THEN "text" ELSE ""]
                over == LoopEnds(quit, begun.trip_count, d.target_trips)
            IN  IF raw.raised # "none" THEN Abort(begun, raw.raised)
                ELSE IF has_complain /\ ~text_ok THEN Abort(updated, "RetryError")
                ELSE [updated EXCEPT !.trips = Append(@, made),
                                     !.dpc = IF over THEN "done" ELSE "trips",
                                     !.number_trips = IF over THEN Len(d.trips) + 1 ELSE @,
                                     !.current_time = IF quit THEN @
                                                      ELSE completion + times.gap]

SimulateTrip(r, times, assault, text_ok) ==
    /\ TripEnabled(DriverRecord, r, assault)
    /\ SetDriver(TripStep(DriverRecord, r, times, assault, text_ok))
    /\ UNCHANGED <<complain_threshold, quit_threshold, stress_decay>>
    /\ UNCHANGED <<graphVars, reproVars, extraVars>>

\* chat_complete_with_model (open_ai_handler.py, 37-75): every exception of
\* an attempt is raised again as RateLimitError, the call is retried on it
\* and given up after StopAfterAttempt attempts, when the retry decorator
\* raises its own error to the caller.
StopAfterAttempt == 10
TextAnswered(failures) == failures < StopAfterAttempt
AttemptFailureArgs == {0, StopAfterAttempt - 1, StopAfterAttempt}

\* The draws of the trip count, and of the hours: a completion within
\* max_completion_time and one beyond it, 20 hundredths cut by an assault,
\* and 5 hours between trips. completion_hours is a uniform draw times a
\* normal one (lines 227-228), which nothing keeps above zero.
SampledTripArgs == 0..MaxTrips
TwinTimeArgs == [hours : {20, 60}, reduction : {20}, gap : {5}]
TimeArgs == [hours : {-20, 20, 60}, reduction : {20}, gap : {5}]

DriverNext ==
    \/ /\ dpc = "new"
       /\ \E complain \in ComplainThresholdArgs, quit \in QuitThresholdArgs,
             decay \in StressDecayArgs, n \in SampledTripArgs, routes \in RouteAssignments,
             gap \in {times.gap : times \in TimeArgs} :
           NewDriver(complain, quit, decay, n, routes, gap)
    \/ /\ dpc = "trips"
       /\ \E r \in 0..(TotalRoutesArg - 1), times \in TimeArgs, assault \in BOOLEAN,
             failures \in AttemptFailureArgs :
           SimulateTrip(r, times, assault, TextAnswered(failures))

SpecDriver == Init /\ [][DriverNext]_vars

\* The arithmetic of the model is exact: every recorded score is a whole
\* number of units and no division above has cut a remainder.
ExactScores ==
    /\ (stress_score * (10 - stress_decay)) % 10 = 0
    /\ (2 * trouble_score * 5) % 100 = 0

\* C10: on every trip the driver has produced, has_complain is true exactly
\* when the stress score recorded on the trip is >= complain_threshold, and
\* driver_quit exactly when it is >= quit_threshold; the recorded score is the
\* driver's stress after that trip's update.
C10_FlagsMatchThresholds ==
    /\ \A i \in 1..Len(trips) :
        /\ trips[i].has_complain <=> (trips[i].stress_score >= complain_threshold)
        /\ trips[i].driver_quit <=> (trips[i].stress_score >= quit_threshold)
    /\ (trips # <<>> /\ dpc # "failed") => trips[Len(trips)].stress_score = stress_score

\* C10 witness: a driver with three trips: none of the flags on the first,
\* the complaint alone on the second, both on the third.
C10_Witness ==
    /\ Len(trips) = 3
    /\ ~trips[1].has_complain /\ ~trips[1].driver_quit
    /\ trips[2].has_complain /\ ~trips[2].driver_quit
    /\ trips[3].has_complain /\ trips[3].driver_quit


\* C11 (as the specification states it): a driver whose quit_threshold is
\* not above its complain_threshold is rejected at construction, so no
\* simulation ever runs with such thresholds.
C11_ThresholdOrderEnforced ==
    dpc \in {"trips", "done", "failed"} => quit_threshold > complain_threshold

\* C12: driver_quit is set on no trip but the last of the sequence, and once
\* the last trip has it set, nothing the driver holds changes any more: no
\* trip is generated or appended after the quitting one.
C12_QuitIsLast ==
    /\ [](\A i \in 1..Len(trips) : trips[i].driver_quit => i = Len(trips))
    /\ [][(trips # <<>> /\ trips[Len(trips)].driver_quit)
              => UNCHANGED driverVars]_vars

\* C12 witness: a finished driver who quit on the second trip or later, with
\* trips of the range still left.
C12_Witness ==
    /\ dpc = "done"
    /\ Len(trips) >= 2
    /\ trips[Len(trips)].driver_quit
    /\ Len(trips) < target_trips

\* C13 (as the specification states it): the finished sequence is no longer
\* than the target trip count, and is as long as the target only when no trip
\* has driver_quit set.
C13_EqualityOnlyWithoutQuit ==
    dpc = "done" =>
        /\ Len(trips) <= target_trips
        /\ Len(trips) = target_trips => \A i \in 1..Len(trips) : ~trips[i].driver_quit

\* C13 (amended): the loop never begins more iterations than the target trip
\* count; the finished sequence is no longer than the target, it is shorter
\* only when its last trip has driver_quit set, and a sequence without a
\* quitting trip has exactly the target length.
C13_LengthWithinTarget ==
    /\ trip_count <= target_trips
    /\ Len(trips) <= trip_count
    /\ dpc = "done" =>
        /\ Len(trips) <= target_trips
        /\ Len(trips) < target_trips => trips[Len(trips)].driver_quit
        /\ (\A i \in 1..Len(trips) : ~trips[i].driver_quit) => Len(trips) = target_trips

\* C13 witness: a finished driver whose quitting trip is the one that fills
\* the target, after at least one trip that did not quit.
C13_Witness ==
    /\ dpc = "done"
    /\ Len(trips) = target_trips
    /\ Len(trips) >= 2
    /\ trips[Len(trips)].driver_quit


(***************************************************************************)
(* _update_stress_score on its own: an object with the fields of lines     *)
(* 52-56 set, on which the method is called with a series of trouble       *)
(* scores.                                                                 *)
(***************************************************************************)
\* The largest number of calls of _update_stress_score in a series.
MaxUpdates == 4

TroubleArgs == {0, Tenths(5), Tenths(8), Tenths(9)}

\* Lines 52-56: the fields _update_stress_score reads.
NewStress(complain, quit, decay) ==
    /\ dpc = "new"
    /\ dpc' = "update"
    /\ complain_threshold' = complain
    /\ quit_threshold' = quit
    /\ stress_decay' = decay
    /\ stress_score' = 0
    /\ has_quit' = FALSE
    /\ updates' = <<>>
    /\ UNCHANGED <<driver2, sessionVars>>
    /\ UNCHANGED <<number_trips, assigned_routes, trouble_score, trips, trip_count,
                   gpt_calls, driver_raised, target_trips, route_id,
                   sampled_trips, current_time>>
    /\ UNCHANGED <<graphVars, reproVars>>

\* _update_stress_score(trouble), lines 101-124; updates keeps what it was
\* called with, the stress it left and the pair it returned.
UpdateStressScore(trouble) ==
    /\ dpc = "update"
    /\ Len(updates) < MaxUpdates
    /\ LET stress == DecayedStress(stress_score, trouble, stress_decay)
           has_complain == HasComplain(stress, complain_threshold)
           quit == HasQuit(stress, quit_threshold)
       IN  /\ stress_score' = stress
           /\ has_quit' = (has_quit \/ quit)
           /\ updates' = Append(updates, [trouble_score |-> trouble,
                                          stress_score |-> stress,
                                          has_complain |-> has_complain,
                                          has_quit |-> quit])
    /\ UNCHANGED <<driver2, sessionVars>>
    /\ UNCHANGED <<dpc, complain_threshold, quit_threshold, stress_decay, number_trips,
                   assigned_routes, trouble_score, trips, trip_count, gpt_calls,
                   driver_raised, target_trips, route_id,
                   sampled_trips, current_time>>
    /\ UNCHANGED <<graphVars, reproVars>>

StressNext ==
    \/ \E complain \in ComplainThresholdArgs, quit \in QuitThresholdArgs,
          decay \in StressDecayArgs : NewStress(complain, quit, decay)
    \/ \E trouble \in TroubleArgs : UpdateStressScore(trouble)

SpecStress == Init /\ [][StressNext]_vars

\* The scenario of C14: its trouble scores, and the flags and the stress it
\* says each update gives.
ExampleTroubles == <<0, Tenths(8), Tenths(8), Tenths(9)>>
ExampleComplains == <<FALSE, TRUE, TRUE, TRUE>>
ExampleQuits == <<FALSE, FALSE, FALSE, TRUE>>
IsExamplePrefix ==
    /\ dpc = "update"
    /\ complain_threshold = Tenths(7)
    /\ quit_threshold = Tenths(16)
    /\ stress_decay = 3
    /\ Len(updates) <= Len(ExampleTroubles)
    /\ \A i \in 1..Len(updates) : updates[i].trouble_score = ExampleTroubles[i]

\* C14: with thresholds 0.7 and 1.6, decay 0.3 and stress 0 at the start, the
\* updates for the trouble scores 0.0, 0.8, 0.8, 0.9 give no complaint on the
\* first, a complaint without quit on the second and third, and on the fourth
\* the first quit, which is the first update that leaves stress >= 1.6.
C14_ExampleScenario ==
    IsExamplePrefix =>
        \A i \in 1..Len(updates) :
            /\ updates[i].has_complain = ExampleComplains[i]
            /\ updates[i].has_quit = ExampleQuits[i]
            /\ (updates[i].stress_score >= Tenths(16)) = (i = 4)
            /\ has_quit = (Len(updates) = 4)

\* C14 witness: the four updates of the scenario have been applied.
C14_Witness == IsExamplePrefix /\ Len(updates) = 4 /\ updates[4].has_quit


\* C15 (as the specification states it): a call of the text generator that
\* fails for good does not abort the driver: the step that makes the call
\* appends the complaining trip and the simulation goes on.
C15_TextFailureTolerated ==
    [][gpt_calls' = gpt_calls + 1 =>
          /\ dpc' # "failed"
          /\ Len(trips') = Len(trips) + 1
          /\ trips'[Len(trips')].has_complain]_vars

\* The trips of the sequence that have the complaint flag set.
ComplainingTrips == {i \in 1..Len(trips) : trips[i].has_complain}

\* C16: the text generator has been called once for each trip with the
\* complaint flag set (and once more for the trip whose call failed), a call
\* is made only in an iteration whose stress update reached the complaint
\* threshold and comes before the append, and a trip without the flag has
\* the empty complaint text.
C16_TextCallPerComplaint ==
    /\ [](/\ gpt_calls = Cardinality(ComplainingTrips)
                         + (IF driver_raised = "RetryError" THEN 1 ELSE 0)
          /\ \A i \in 1..Len(trips) :
                (trips[i].complain # "") = trips[i].has_complain)
    /\ [][/\ gpt_calls' # gpt_calls =>
                /\ gpt_calls' = gpt_calls + 1
                /\ trip_count' = trip_count + 1
                /\ stress_score' >= complain_threshold
                /\ \/ trips' = trips /\ driver_raised' = "RetryError"
                   \/ /\ trips' = Append(trips, trips'[Len(trips')])
                      /\ trips'[Len(trips')].has_complain
                      /\ trips'[Len(trips')].stress_score = stress_score'
          /\ trips' # trips =>
                (trips'[Len(trips')].has_complain = (gpt_calls' = gpt_calls + 1))]_vars

\* C16 witness: a driver with a trip that did not complain and two that did,
\* and two calls of the text generator.
C16_Witness ==
    /\ Len(trips) = 3
    /\ ~trips[1].has_complain
    /\ trips[2].has_complain /\ trips[3].has_complain
    /\ gpt_calls = 2


(***************************************************************************)
(* The same DriverLife built in two runs. DriverLife takes no seed and no  *)
(* generator of its own: every draw of __init__, _simulate_trips and       *)
(* _simulate_assault comes from the module-level generators of random and  *)
(* numpy.random, which get_random_route and every other DriverLife draw    *)
(* from as well. rng and rng2 are the state of those generators in the two *)
(* runs; both runs seed them alike, and in the second run something else   *)
(* may draw from them too. Draws made in the same generator state are the  *)
(* same draws.                                                             *)
(***************************************************************************)
\* The most draws other users of the generators make in the second run.
MaxOtherDraws == 1
\* The largest number of trips the drivers of the two runs draw.
MaxTwinTrips == 2

\* The defaults of the thresholds (lines 32-34).
DefaultComplainThreshold == Tenths(7)
DefaultQuitThreshold == Tenths(16)
DefaultStressDecay == 3

\* random.seed(seed) and np.random.seed(seed) at the start of both runs.
SharedSeed(seed) ==
    /\ dpc = "new"
    /\ dpc' = "seeded"
    /\ rng' = SeedRandom(rng, seed)
    /\ rng2' = SeedRandom(rng2, seed)
    /\ UNCHANGED <<complain_threshold, quit_threshold, stress_decay, number_trips,
                   assigned_routes, stress_score, has_quit, trouble_score, trips,
                   trip_count, gpt_calls, driver_raised, target_trips, route_id,
                   sampled_trips, current_time>>
    /\ UNCHANGED <<graphVars, graph2, extraVars>>

\* The draws the other user makes at a time: more than one run of this
\* driver makes in all, so that the generator of the second run stays ahead.
OtherDraws == MaxTwinTrips + 2

\* In the second run, draws by another user of the generators: the
\* random.choice of get_random_route (synthetic_graph.py, 128) or the draws
\* of another DriverLife, before this driver is built or between its trips.
OtherDraw ==
    /\ dpc \in {"seeded", "trips"}
    /\ driver2.dpc \in {"new", "trips"}
    /\ rng2.pos - rng.pos < MaxOtherDraws
    /\ rng2' = Advance(rng2, OtherDraws)
    /\ UNCHANGED <<driverVars, graphVars, graph2, rng, extraVars>>

\* DriverLife(...) with the default thresholds in both runs; n1, routes1 and
\* n2, routes2 are what the two runs draw at lines 63 and 66-69.
TwinNewDriver(n1, routes1, gap1, n2, routes2, gap2) ==
    /\ dpc = "seeded"
    /\ complain_threshold' = DefaultComplainThreshold
    /\ quit_threshold' = DefaultQuitThreshold
    /\ stress_decay' = DefaultStressDecay
    /\ SetDriver(StartDriver(n1, routes1, gap1))
    /\ driver2' = StartDriver(n2, routes2, gap2)
    /\ rng' = Advance(rng, 1)
    /\ rng2' = Advance(rng2, 1)
    /\ UNCHANGED <<graphVars, graph2, updates, sessionVars>>

\* Line 217: the loop has an iteration left.
LoopRuns(d) == d.dpc = "trips" /\ d.trip_count < d.target_trips

\* One iteration of the loop of _simulate_trips in each run that has one
\* left; the text generator answers both runs alike.
TwinTrip(r1, times1, assault1, r2, times2, assault2, text_ok) ==
    LET first == TripEnabled(DriverRecord, r1, assault1)
        second == TripEnabled(driver2, r2, assault2)
    IN  /\ first \/ second
        /\ LoopRuns(DriverRecord) => first
        /\ LoopRuns(driver2) => second
        /\ SetDriver(IF first
                     THEN TripStep(DriverRecord, r1, times1, assault1, text_ok)
                     ELSE DriverRecord)
        /\ driver2' = IF second
                      THEN TripStep(driver2, r2, times2, assault2, text_ok)
                      ELSE driver2
        /\ rng' = IF first THEN Advance(rng, 1) ELSE rng
        /\ rng2' = IF second THEN Advance(rng2, 1) ELSE rng2
        /\ UNCHANGED <<complain_threshold, quit_threshold, stress_decay>>
        /\ UNCHANGED <<graphVars, graph2, updates, sessionVars>>

InitDrawArgs == (1..MaxTwinTrips) \X RouteAssignments \X {5}
TripDrawArgs == (0..(TotalRoutesArg - 1)) \X TwinTimeArgs \X BOOLEAN

SharedNext ==
    \/ \E seed \in SeedArgs : SharedSeed(seed)
    \/ OtherDraw
    \/ /\ dpc = "seeded"
       /\ \E d1 \in InitDrawArgs : \E d2 \in TwinDraws(d1, InitDrawArgs) :
           TwinNewDriver(d1[1], d1[2], d1[3], d2[1], d2[2], d2[3])
    \/ /\ LoopRuns(DriverRecord) \/ LoopRuns(driver2)
       /\ \E d1 \in TripDrawArgs : \E d2 \in TwinDraws(d1, TripDrawArgs) :
           \E failures \in {0, StopAfterAttempt} :
               TwinTrip(d1[1], d1[2], d1[3], d2[1], d2[2], d2[3], TextAnswered(failures))

SpecShared == Init /\ [][SharedNext]_vars

\* While nothing else has drawn from the generators, the two runs are in
\* the same state.
SameSeedSameDriver == rng = rng2 => driver2 = DriverRecord \/ driver2.dpc = "new"

\* C17 (as the specification states it): the trip sequence of a driver is
\* the same in two runs with the same seed, tables and parameters, whether
\* or not something else runs before it or between its trips.
C17_NoSharedState ==
    (dpc = "done" /\ driver2.dpc = "done") => driver2.trips = trips


(***************************************************************************)
(* MySQLManager.session_scope (db/db_manager.py, 57-82). Rows are known by *)
(* their primary key.                                                      *)
(***************************************************************************)
\* The largest primary key the bodies add, and the most scopes entered.
MaxRowId == 2
MaxScopes == 3

RowArgs == 1..MaxRowId
\* What the with-body can end with: a normal end, an Exception, or an
\* exception that is not an Exception (it passes `except Exception`).
BodyArgs == {"none", "Exception", "KeyboardInterrupt"}
IsException(exc) == exc = "Exception"

\* Lines 70-75: the session is made and handed to the body.
EnterScope ==
    /\ spc = "idle"
    /\ scopes < MaxScopes
    /\ spc' = "body"
    /\ scopes' = scopes + 1
    /\ pending' = {}
    /\ UNCHANGED <<db, seen, last_scope>>
    /\ UNCHANGED <<graphVars, reproVars, driverVars, updates, driver2>>

\* session.add(row) in the body.
SessionAdd(row) ==
    /\ spc = "body"
    /\ row \notin pending
    /\ pending' = pending \cup {row}
    /\ UNCHANGED <<spc, db, seen, last_scope, scopes>>
    /\ UNCHANGED <<graphVars, reproVars, driverVars, updates, driver2>>

\* session.query(...).all() in the body: the committed rows and, flushed
\* first, the rows of this session. A row whose key the database holds
\* already cannot be flushed; the query then raises and the body ends.
SessionQuery ==
    /\ spc = "body"
    /\ pending \cap db = {}
    /\ seen' = db \cup pending
    /\ UNCHANGED <<spc, db, pending, last_scope, scopes>>
    /\ UNCHANGED <<graphVars, reproVars, driverVars, updates, driver2>>

\* Mutant of LeaveScope: the commit moved into the finally block.
LeaveScope_CommitAlways(rows, held, body, commit_ok) ==
    [db |-> held \cup rows, calls |-> <<"commit", "close">>, raised |-> body]

\* Lines 75-82, from the end of the body on: commit if the body ended
\* normally; rollback and raise again on an Exception of the body or of the
\* commit; close in every case. A commit fails when a key is held already,
\* and may fail for reasons of the database.
LeaveScope(rows, held, body, commit_ok) ==
    IF body = "none"
    THEN IF commit_ok /\ rows \cap held = {}
         THEN [db |-> held \cup rows, calls |-> <<"commit", "close">>, raised |-> "none"]
         ELSE [db |-> held, calls |-> <<"commit", "rollback", "close">>,
               raised |-> "SQLAlchemyError"]
    ELSE IF IsException(body)
         THEN [db |-> held, calls |-> <<"rollback", "close">>, raised |-> body]
         ELSE [db |-> held, calls |-> <<"close">>, raised |-> body]

\* The with-block ends: the body returns or raises, and session_scope runs
\* to its end.
ExitScope(body, commit_ok) ==
    /\ spc = "body"
    /\ spc' = "idle"
    /\ LET left == LeaveScope(pending, db, body, commit_ok)
       IN  /\ db' = left.db
           /\ last_scope' = [body |-> body, calls |-> left.calls,
                             raised |-> left.raised, added |-> pending]
    /\ pending' = {}
    /\ UNCHANGED <<seen, scopes>>
    /\ UNCHANGED <<graphVars, reproVars, driverVars, updates, driver2>>

SessionNext ==
    \/ EnterScope
    \/ \E row \in RowArgs : SessionAdd(row)
    \/ SessionQuery
    \/ \E body \in BodyArgs, commit_ok \in BOOLEAN : ExitScope(body, commit_ok)

SpecSession == Init /\ [][SessionNext]_vars

\* C18 (as the specification states it): the trouble of a non-assaulted trip
\* is computed over every edge of its route, with the unloading multiplier
\* kept for the last edge alone, and the computation completes: it does not
\* end the driver with a TypeError.
C18_TroubleComputedForEveryEdge == driver_raised # "TypeError"

\* C19: a scope commits only if its body ended without raising; when the
\* body or the commit raised, the database holds what it held before (so no
\* later scope sees the rows of that scope), the session was rolled back
\* and the exception reached the caller; close is the last call on the
\* session in every case, and no session stays open with rows after it.
C19_SessionScope ==
    /\ [](last_scope # NoScope =>
            /\ last_scope.calls[Len(last_scope.calls)] = "close"
            /\ \A i \in 1..(Len(last_scope.calls) - 1) : last_scope.calls[i] # "close"
            /\ last_scope.body # "none" =>
                  /\ \A i \in 1..Len(last_scope.calls) : last_scope.calls[i] # "commit"
                  /\ last_scope.raised = last_scope.body
            /\ (IsException(last_scope.body) \/ last_scope.raised = "SQLAlchemyError") =>
                  \E i \in 1..Len(last_scope.calls) : last_scope.calls[i] = "rollback"
            /\ last_scope.raised = "none" => last_scope.calls = <<"commit", "close">>)
    /\ [](spc = "idle" => pending = {})
    /\ [][seen' # seen => seen' = db \cup pending]_vars
    /\ [][spc = "body" /\ spc' = "idle" =>
              IF last_scope'.raised = "none"
              THEN db' = db \cup pending
              ELSE db' = db]_vars
    /\ [][db' # db => spc = "body" /\ spc' = "idle"]_vars

\* C19 witness: the scenario of test_session_rollback: a scope that added a
\* row and raised, then a scope whose query finds no row.
C19_Witness ==
    /\ scopes = 2
    /\ spc = "body"
    /\ last_scope.body = "Exception"
    /\ last_scope.added # {}
    /\ last_scope.calls = <<"rollback", "close">>
    /\ db = {}
    /\ seen = {}


\* A route id the route table does not hold; a route of the table with an
\* edge the connection table does not hold.
RouteMissing(id) == id \notin DOMAIN RouteData
EdgeMissing(id) ==
    /\ id \in DOMAIN RouteData
    /\ LET conns == GetConnections(RouteData[id].intermediate_nodes)
       IN  \E i \in DOMAIN conns : ConnectionRows(conns[i][1], conns[i][2]) = {}

\* C20: the iteration that selects a route id missing from the route table,
\* or a route with an edge missing from the connection table, raises
\* (KeyError, IndexError) and ends the construction without appending a
\* trip; a failed construction stays failed and never becomes a finished
\* driver, and no recorded trip runs over a missing route or edge.
C20_MissingDataAborts ==
    /\ [](/\ \A i \in 1..Len(trips) :
                ~RouteMissing(trips[i].route_id) /\ ~EdgeMissing(trips[i].route_id)
          /\ dpc = "done" => driver_raised = "none"
          /\ driver_raised # "none" => dpc = "failed")
    /\ [][(trip_count' = trip_count + 1 /\ assigned_routes # {}) =>
              /\ RouteMissing(route_id') =>
                    dpc' = "failed" /\ driver_raised' = "KeyError" /\ trips' = trips
              /\ EdgeMissing(route_id') =>
                    dpc' = "failed" /\ driver_raised' = "IndexError" /\ trips' = trips]_vars
    /\ [][dpc = "failed" => UNCHANGED driverVars]_vars

\* C20 witness: a driver with a trip made already selects a route id the
\* route table does not hold, and its construction has failed.
C20_Witness ==
    /\ dpc = "failed"
    /\ driver_raised = "KeyError"
    /\ RouteMissing(route_id)
    /\ Len(trips) >= 1

\* A driver constructed with no assigned route fails in its first iteration,
\* at the draw of the route, with no trip made.
EmptyRoutesFailFast ==
    /\ [](assigned_routes = {} => trips = <<>> /\ dpc # "done")
    /\ [][(assigned_routes = {} /\ trip_count' = trip_count + 1) =>
              dpc' = "failed" /\ driver_raised' = "ValueError" /\ trip_count = 0]_vars

\* C21 (as the specification states it): a driver whose assigned-route set
\* is empty, or whose drawn trip count is zero or negative, fails before any
\* trip is made and never holds a trip.
C21_DegenerateDriverFailsFast ==
    (dpc \in {"trips", "done", "failed"} /\ (assigned_routes = {} \/ sampled_trips < 1)) =>
        trips = <<>> /\ dpc # "done"

\* A driver whose drawn trip count is zero is finished with one trip.
ZeroCountDriverWithTrip ==
    /\ dpc = "done"
    /\ sampled_trips = 0
    /\ assigned_routes # {}
    /\ Len(trips) = 1

\* Every trip after the first starts no earlier than the completion of the
\* trip before it (line 283 adds a non-negative exponential draw).
TripsFollowEachOther ==
    \A i \in 2..Len(trips) : trips[i].start_datetime >= trips[i - 1].completion_datetime

\* C22 (as the specification states it): every trip completes no earlier
\* than it starts, also when an assault has shortened it, and every trip
\* after the first starts no earlier than the completion of the trip before.
C22_Chronological ==
    /\ \A i \in 1..Len(trips) : trips[i].completion_datetime >= trips[i].start_datetime
    /\ TripsFollowEachOther

\* The stress impact and the stress update as the specification words them.
ClaimedImpact(t) ==
    CASE t < Hundredths(1) -> 0
      [] t >= Hundredths(1) /\ t <= Tenths(7) -> t
      [] t > Tenths(7) -> Hundredths(84)
ClaimedStress(old, t, decay) == (old * (10 - decay)) \div 10 + ClaimedImpact(t)

\* Trouble scores on both sides of, and at, the two limits of the impact.
ImpactArgs ==
    {0, Hundredths(1) - 1, Hundredths(1), Hundredths(1) + 1, Tenths(5),
     Tenths(7) - 1, Tenths(7), Tenths(7) + 1, Scale}

\* C23: the stress impact is 0 for a trouble below 0.01, the trouble itself
\* from 0.01 to 0.7 and the constant 0.84 above 0.7; an iteration leaves
\* stress at old * (1 - stress_decay) + impact(trouble) and records that
\* value on the trip it appends; stress changes in no other step.
C23_StressUpdate ==
    /\ [](\A t \in ImpactArgs : CalculateStressImpact(t) = ClaimedImpact(t))
    /\ [][trip_count' = trip_count + 1 /\ driver_raised' \in {"none", "RetryError"} =>
              stress_score' = ClaimedStress(stress_score, trouble_score', stress_decay)]_vars
    /\ [][trips' # trips =>
              /\ Len(trips') = Len(trips) + 1
              /\ trips'[Len(trips')].stress_score = stress_score'
              /\ trips'[Len(trips')].trouble_score = trouble_score']_vars
    /\ [][stress_score' # stress_score => trip_count' = trip_count + 1]_vars

\* C23 witness: three trips of one driver with a trouble above 0.7, one
\* between 0.01 and 0.7 and one below 0.01, the last leaving a decayed stress.
C23_Witness ==
    /\ Len(trips) >= 3
    /\ trips[1].trouble_score > Tenths(7)
    /\ trips[2].trouble_score >= Hundredths(1) /\ trips[2].trouble_score <= Tenths(7)
    /\ trips[3].trouble_score < Hundredths(1)
    /\ trips[3].stress_score = stress_score
    /\ stress_score > 0 /\ stress_score < trips[2].stress_score

\* The blend as the specification words it, 0.2 * 0.5 being a tenth, and
\* the raw trouble of a recorded trip: 1.0 when assaulted, otherwise what
\* the loop over its edges returns.
ClaimedBlend(previous, raw) == previous \div 10 + (raw * 8) \div 10
RawTrouble(trip) ==
    IF trip.assaulted THEN Scale
    ELSE SimulateTrouble(RouteData[trip.route_id].intermediate_nodes, trip.on_time, FALSE).score

\* C24: the trouble recorded on a trip is 0.2 * 0.5 times the trouble
\* recorded on the trip before it (0 for the first trip) plus 0.8 times the
\* raw trouble of this trip, which is exactly 1.0 when the trip is assaulted,
\* whatever its route.
C24_TroubleBlend ==
    \A i \in 1..Len(trips) :
        LET previous == IF i = 1 THEN 0 ELSE trips[i - 1].trouble_score
        IN  /\ trips[i].trouble_score = ClaimedBlend(previous, RawTrouble(trips[i]))
            /\ trips[i].assaulted =>
                  trips[i].trouble_score = ClaimedBlend(previous, Scale)

\* C24 witness: an assaulted trip follows a trip with a positive trouble,
\* and a third trip without an assault follows it.
C24_Witness ==
    /\ Len(trips) >= 3
    /\ trips[1].trouble_score > 0
    /\ trips[2].assaulted
    /\ trips[2].trouble_score = Hundredths(88)
    /\ ~trips[3].assaulted
    /\ trips[3].trouble_score = Hundredths(88) \div 10

(***************************************************************************)
(* DriverLife with the default min_routes and max_routes, over a route     *)
(* table of MaxDefaultRoutes routes of which RouteData describes the first *)
(* four.                                                                   *)
(***************************************************************************)
DefaultMinRoutes == 3
DefaultMaxRoutes == 10
MaxDefaultRoutes == 11
MaxDefaultTrips == 2

DefaultRouteAssignments == RouteChoices(DefaultMinRoutes, DefaultMaxRoutes, MaxDefaultRoutes)
DefaultTimes == [hours |-> 20, reduction |-> 20, gap |-> 5]

DefaultsNext ==
    \/ /\ dpc = "new"
       /\ \E n \in 1..MaxDefaultTrips, routes \in DefaultRouteAssignments :
           NewDriver(DefaultComplainThreshold, DefaultQuitThreshold, DefaultStressDecay,
                     n, routes, DefaultTimes.gap)
    \/ \E r \in 0..(MaxDefaultRoutes - 1), assault \in BOOLEAN,
          failures \in {0, StopAfterAttempt} :
        SimulateTrip(r, DefaultTimes, assault, TextAnswered(failures))

SpecDefaults == Init /\ [][DefaultsNext]_vars

\* C25: with the default limits the assigned-route set of a driver has from
\* 3 to 10 members, all of them indices of available routes; every
\* iteration selects, and every trip records, the route id of an assigned
\* member plus one.
C25_AssignedRoutes ==
    /\ [](dpc # "new" =>
            /\ Cardinality(assigned_routes) >= 3
            /\ Cardinality(assigned_routes) <= 10
            /\ assigned_routes \subseteq 0..(MaxDefaultRoutes - 1)
            /\ \A i \in 1..Len(trips) : (trips[i].route_id - 1) \in assigned_routes)
    /\ [][trip_count' = trip_count + 1 => (route_id' - 1) \in assigned_routes]_vars

\* C25 witness: a driver with three assigned routes has made two trips on
\* two of them.
C25_Witness ==
    /\ Cardinality(assigned_routes) = 3
    /\ Len(trips) = 2
    /\ trips[1].route_id # trips[2].route_id

\* With quit_threshold no lower than complain_threshold, a quitting trip
\* has the complaint flag and a complaint text.
QuitImpliesComplaintWhenOrdered ==
    quit_threshold >= complain_threshold =>
        \A i \in 1..Len(trips) :
            trips[i].driver_quit => trips[i].has_complain /\ trips[i].complain # ""

\* C26 (as the specification states it): every trip on which quit fires has
\* its complaint flag set as well, and the text generator has written the
\* complaint of the quitting trip.
C26_QuitImpliesComplaint ==
    \A i \in 1..Len(trips) :
        trips[i].driver_quit => trips[i].has_complain /\ trips[i].complain # ""

DigitChars == <<"0", "1", "2", "3", "4", "5", "6", "7", "8", "9">>

\* str(n) of an integer.
RECURSIVE Str(_)
Str(n) ==
    IF n < 0 THEN <<"-">> \o Str(-n)
    ELSE IF n < 10 THEN <<DigitChars[n + 1]>>
    ELSE Str(n \div 10) \o <<DigitChars[(n % 10) + 1]>>

\* sep.join(items)
RECURSIVE Join(_, _)
Join(sep, items) ==
    IF items = <<>> THEN <<>>
    ELSE IF Len(items) = 1 THEN items[1]
    ELSE items[1] \o <<sep>> \o Join(sep, Tail(items))

\* chars.split(sep): the fields between the separators, at least one.
RECURSIVE Split(_, _)
Split(chars, sep) ==
    IF chars = <<>> THEN << <<>> >>
    ELSE IF Head(chars) = sep THEN << <<>> >> \o Split(Tail(chars), sep)
    ELSE LET rest == Split(Tail(chars), sep)
         IN  << <<Head(chars)>> \o rest[1] >> \o Tail(rest)

\* int(chars) of a decimal numeral.
DigitValue(c) == CHOOSE d \in 0..9 : DigitChars[d + 1] = c
RECURSIVE ParseInt(_)
ParseInt(chars) ==
    IF Head(chars) = "-" THEN 0 - ParseInt(Tail(chars))
    ELSE IF Len(chars) = 1 THEN DigitValue(chars[1])
    ELSE 10 * ParseInt(SubSeq(chars, 1, Len(chars) - 1)) + DigitValue(chars[Len(chars)])

\* RoutePopulator.create_record_route, without the two completion times,
\* whose speed constants are not part of the sources.
CreateRecordRoute(r) ==
    [start_node |-> r.start + 1,
     end_node |-> r.end + 1,
     price |-> r.total_price,
     distance |-> r.total_distance,
     intermediate_nodes |-> Join(",", [i \in DOMAIN r.path |-> Str(r.path[i] + 1)])]

\* Mutant of CreateRecordConnection: the node ids written as the graph has them.
CreateRecordConnection_NoShift(start_node, end_node) ==
    [start_node |-> start_node, end_node |-> end_node]

\* SimpleConnectionPopulator.create_record_connection: the two key columns
\* (the other columns are random draws).
CreateRecordConnection(start_node, end_node) ==
    [start_node |-> start_node + 1, end_node |-> end_node + 1]

\* SimpleConnectionPopulator.create_record_list
CreateRecordList(connection_list) ==
    {CreateRecordConnection(x[1], x[2]) : x \in connection_list}

\* Line 80 of get_connections: nodes = [int(x) for x in path_string.split(',')]
PathNodes(path_string) ==
    LET fields == Split(path_string, ",")
    IN  [i \in DOMAIN fields |-> ParseInt(fields[i])]

\* C29: for the route the graph has returned, get_connections of the
\* intermediate_nodes string RoutePopulator writes is the sequence of
\* consecutive node pairs of the route's path with every id one higher, and
\* each of the pairs is the (start_node, end_node) of a record that
\* SimpleConnectionPopulator creates from graph_edges.
C29_RouteEdgesInConnectionTable ==
    route # None =>
        LET record == CreateRecordRoute(route)
            connections == GetConnections(PathNodes(record.intermediate_nodes))
        IN  /\ connections = [i \in 1..(Len(route.path) - 1) |->
                                 <<route.path[i] + 1, route.path[i + 1] + 1>>]
            /\ \A i \in DOMAIN connections :
                  [start_node |-> connections[i][1], end_node |-> connections[i][2]]
                      \in CreateRecordList(graph_edges)

\* C29 witness: the graph has returned a route over two edges, one of them
\* not an edge of the backbone, so added by _add_random_edges.
C29_Witness ==
    /\ route # None
    /\ Len(route.path) = 3
    /\ \E i \in 1..2 :
          (route.path[i + 1] - route.path[i]) % num_nodes \notin {1, num_nodes - 1}
    /\ Len(GetConnections(PathNodes(CreateRecordRoute(route).intermediate_nodes))) = 2

\* C30: with complain_threshold at most 0.84 every assaulted trip has a
\* recorded trouble of at least 0.8, a stress of at least 0.84 and the
\* complaint flag; and no assaulted trip is on time, whatever the threshold.
C30_AssaultComplains ==
    \A i \in 1..Len(trips) :
        trips[i].assaulted =>
            /\ ~trips[i].on_time
            /\ trips[i].trouble_score >= Tenths(8)
            /\ trips[i].stress_score >= Hundredths(84)
            /\ complain_threshold <= Hundredths(84) => trips[i].has_complain

\* C30 witness: with the threshold at 0.84 itself, a first trip completed
\* within max_completion_time is assaulted and leaves the stress at 0.84,
\* and a later assaulted trip finds a higher stress.
C30_Witness ==
    /\ complain_threshold = Hundredths(84)
    /\ Len(trips) >= 2
    /\ trips[1].assaulted /\ trips[1].has_complain
    /\ trips[1].stress_score = Hundredths(84)
    /\ trips[1].completion_datetime - trips[1].start_datetime
          <= RouteData[trips[1].route_id].max_completion_time
    /\ trips[1].completion_datetime > trips[1].start_datetime
    /\ trips[2].assaulted /\ trips[2].stress_score > Hundredths(84)

====
